---- MODULE Spec2Model ----
(***************************************************************************)
(* Model of src/agent.py: the session protocol handler main() and the      *)
(* streamed research run research().                                       *)
(*                                                                         *)
(* Text is modelled as a sequence of tokens (atomic substrings), so that   *)
(* concatenation is \o, the empty string is <<>> and strip() removes       *)
(* whitespace tokens.  A Python dict is a function on its keys, so a       *)
(* missing key is a key outside DOMAIN.                                    *)
(***************************************************************************)
EXTENDS Naturals, Sequences, FiniteSets

\* ---------------------------------------------------------------- bounds
\* how much the environment may do in one run of the process: the input
\* lines main() reads plus the turns of arbitrary shape the agent produces
MaxSteps == 4
\* how long a conversation of repeated tool requests may grow
MaxLoopTurns == 9

\* ------------------------------------------------------- python helpers
None == "<None>"
Space == " "

Min(a, b) == IF a < b THEN a ELSE b

\* dict.get(key, default)
Get(d, key, default) == IF key \in DOMAIN d THEN d[key] ELSE default

\* truth value of an identifier, a name or a query: None and "" are falsy
Truthy(v) == v \notin {None, ""}

RECURSIVE LStrip(_)
LStrip(s) == IF s # <<>> /\ Head(s) = Space THEN LStrip(Tail(s)) ELSE s

RECURSIVE RStrip(_)
RStrip(s) ==
    IF s # <<>> /\ s[Len(s)] = Space THEN RStrip(SubSeq(s, 1, Len(s) - 1)) ELSE s

\* str.strip()
Strip(s) == RStrip(LStrip(s))

\* ------------------------------------------------------------ the input
MessageIds == {"m1", "m2"}
Queries == {"q1"}

EmptyDict == [k \in {} |-> None]

\* One line of stdin: blank, not JSON, a JSON value that is no object, or a
\* JSON object (its fields).
NoLine == [form |-> "none", kind |-> "none", fields |-> EmptyDict]
BlankLine == [form |-> "blank", kind |-> "none", fields |-> EmptyDict]
GarbageLine == [form |-> "text", kind |-> "none", fields |-> EmptyDict]
JsonScalar(k) == [form |-> "json", kind |-> k, fields |-> EmptyDict]
JsonObject(f) == [form |-> "json", kind |-> "object", fields |-> f]

ShutdownLine == JsonObject([type |-> "shutdown"])
MessageLine(m, q) == JsonObject([type |-> "message", message_id |-> m, content |-> q])

InputLines ==
    {BlankLine, GarbageLine, JsonScalar("number"), JsonScalar("array"),
     JsonObject(EmptyDict), ShutdownLine, JsonObject([type |-> "ready"])}
    \cup {MessageLine(m, q) : m \in MessageIds, q \in Queries}
    \cup {JsonObject([type |-> "message", content |-> q]) : q \in Queries}
    \cup {JsonObject([type |-> "message", message_id |-> m]) : m \in MessageIds}

\* json.loads(line): the parsed value, or JSONDecodeError
JsonLoads(line) ==
    IF line.form = "json"
    THEN [ok |-> TRUE, kind |-> line.kind, fields |-> line.fields]
    ELSE [ok |-> FALSE, kind |-> "none", fields |-> EmptyDict]

\* msg[key]: the exception the subscript raises, or "none"
SubscriptFault(msg, key) ==
    IF msg.kind # "object" THEN "TypeError"
    ELSE IF key \notin DOMAIN msg.fields THEN "KeyError"
    ELSE "none"

\* ------------------------------------------------- the agent's messages
ToolName == "web_search"

\* message content: a str, or a list of content blocks
Str(s) == [kind |-> "str", text |-> s, blocks |-> <<>>]
Blocks(b) == [kind |-> "list", text |-> <<>>, blocks |-> b]

\* a content block: a dict, or a bare string inside the list
DictBlock(f) == [dict |-> TRUE, fields |-> f]
TextBlock(s) == DictBlock([type |-> "text", text |-> s])
ToolUseBlock == DictBlock([type |-> "tool_use"])

\* a tool call as langchain hands it over: id, name, args
ToolCall(id, q) == [id |-> id, name |-> ToolName, args |-> [query |-> q]]
\* a tool call the provider gave no id
NoIdCall(q) == [name |-> ToolName, args |-> [query |-> q]]

Turn(t, c, tcs) == [type |-> t, content |-> c, tool_calls |-> tcs]
HumanTurn(q) == Turn("human", Str(<<q>>), <<>>)

\* ---------------------------------------------------------- web_search
\* what the search provider does with one request: it answers with a JSON
\* payload, or the request fails (transport fault, HTTP error status, a body
\* that is no JSON), `cause` being str(e) of the exception
Answer(data) == [kind |-> "ok", data |-> data, cause |-> <<>>]
Failure(kind, cause) == [kind |-> kind, data |-> EmptyDict, cause |-> cause]

ProviderOutcomes ==
    {Answer([web |-> [results |-> <<[title |-> "T", url |-> "U"]>>]]),
     Answer(EmptyDict),
     Failure("transport", <<"timed out">>),
     Failure("status", <<"429 Too Many Requests">>),
     Failure("payload", <<"Expecting value">>)}

\* the text of one result
ResultText(item) ==
    <<"Title: ", Get(item, "title", ""), "\nURL: ", Get(item, "url", ""),
      "\nDescription: ", Get(item, "description", "")>>

\* "\n\n---\n\n".join(results)
RECURSIVE JoinResults(_)
JoinResults(results) ==
    IF Len(results) = 1 THEN Head(results)
    ELSE Head(results) \o <<"\n\n---\n\n">> \o JoinResults(Tail(results))

\* str(n) of a small count
IntStr(n) == <<"0", "1", "2", "3">>[n + 1]

\* the body of the try statement, for a request the provider answered
SearchBody(query, data) ==
    LET items == Get(Get(data, "web", EmptyDict), "results", <<>>)
        results == [n \in 1..Len(items) |-> ResultText(items[n])]
    IN  [raised |-> FALSE,
         value |-> IF results = <<>>
                   THEN <<"No results found. Try a different search query.">>
                   ELSE JoinResults(results),
         logged |-> <<<<"Brave API returned ", IntStr(Len(items)),
                        " results for: ", query>>>>]

\* a web_search without the try statement: the exception leaves the tool
web_search_unguarded(query, outcome) ==
    IF outcome.kind = "ok" THEN SearchBody(query, outcome.data)
    ELSE [raised |-> TRUE, value |-> outcome.cause, logged |-> <<>>]

\* web_search(query) under one outcome of the provider: whether it raises,
\* the string it returns (str(e) if it raises) and the lines it logs
web_search(query, outcome) ==
    IF outcome.kind = "ok" THEN SearchBody(query, outcome.data)
    ELSE [raised |-> FALSE, value |-> <<"Search error: ">> \o outcome.cause,
          logged |-> <<>>]

\* the query the agent runs its searches with
SearchQuery == "qa"

\* the tool message the agent adds for a search that returned
ToolTurn(outcome) ==
    Turn("tool", Str(web_search(SearchQuery, outcome).value), <<>>)

\* the outcomes the agent's searches meet: one answer and one failure
Searched ==
    {o \in ProviderOutcomes :
        \/ o.kind = "transport"
        \/ o.kind = "ok" /\ o.data # EmptyDict}

\* the tool messages a search may end in
ToolTurns ==
    {ToolTurn(o) : o \in {x \in Searched : ~web_search(SearchQuery, x).raised}}

\* what str(e) is when a search raises and the agent lets the exception through
ToolFaults ==
    {web_search(SearchQuery, o).value :
        o \in {x \in ProviderOutcomes : web_search(SearchQuery, x).raised}}

\* a call of one of the agent's built-in tools, which take no query
PlanCall(id) == [id |-> id, name |-> "write_todos", args |-> EmptyDict]

\* the turn a model that keeps asking for the same search produces: its
\* content holds the tool_use block only
LoopTurn == Turn("ai", Blocks(<<ToolUseBlock>>), <<ToolCall("t1", "qa")>>)

\* the turns the agent may add to a conversation
AgentTurns ==
    ToolTurns \cup
    {LoopTurn,
     Turn("ai", Str(<<"a1">>), <<>>),
     Turn("ai", Str(<<"a2">>), <<ToolCall("t1", "qa"), ToolCall("t2", "qb")>>),
     Turn("ai", Str(<<Space>>), <<NoIdCall("qa"), NoIdCall("qc")>>),
     Turn("ai", Blocks(<<TextBlock(<<"b1">>), TextBlock(<<"b2">>)>>),
          <<PlanCall("t2")>>)}

\* what str(e) of a fault raised inside research() may be
Faults == {<<"boom">>}

\* ------------------------------------------------------------ the state
VARIABLES
    pc,                  \* where main() is: STARTING, SERVING, RESEARCH, STOPPED, CRASHED
    nread,               \* how many lines main() has read from stdin
    line,                \* main(): the line read last
    asked,               \* the message_id of every query handed to research(), in order
    stdout,              \* the events written to stdout, in order
    stderr,              \* the lines written to stderr, in order
    sent_during,         \* for each event of stdout, how many queries had been asked when it was written
    fault,               \* the exception that ended main(), or "none"
    mid,                 \* research(): message_id
    messages,            \* the agent's conversation, as the last snapshot shows it
    final_response,      \* research(): final_response
    emitted_tool_calls,  \* research(): emitted_tool_calls
    announced,           \* the identifiers this research() run has announced, in order
    produced             \* how many turns the agent has produced since the process started,
                         \* the rounds past MaxSteps of a model that keeps asking not counted

vars == <<pc, nread, line, asked, stdout, stderr, sent_during, fault, mid, messages,
          final_response, emitted_tool_calls, announced, produced>>

\* ---------------------------------------------------------------- send
\* a writer that puts the newest line first
SendFirst(out, msg) == <<msg>> \o out

\* send(msg): one more line on stdout, flushed
send(out, msg) == Append(out, msg)

\* log(text): one more line on stderr
log(err, text) == Append(err, text)

\* ------------------------------------------------------------ research
\* an identifier that tells id-less calls apart by their query
TcIdByQuery(tc) ==
    IF Truthy(Get(tc, "id", None)) THEN tc.id
    ELSE Get(Get(tc, "args", EmptyDict), "query", "")

\* the identifier a tool call is deduplicated under
TcId(tc) ==
    IF Truthy(Get(tc, "id", None)) THEN tc.id ELSE Get(tc, "name", "")

\* an activity event that leaves the message_id out
ActivityWithoutId(tc, message_id) ==
    [type |-> "activity", tool |-> Get(tc, "name", "unknown"),
     description |-> <<Get(tc, "name", "unknown")>>, message_id |-> None]

\* the activity event of one tool call
ActivityEvent(tc, message_id) ==
    LET tool_name == Get(tc, "name", "unknown")
        q == Get(Get(tc, "args", EmptyDict), "query", "")
        desc == IF Truthy(q) THEN <<tool_name, "(", q, ")">> ELSE <<tool_name>>
    IN  [type |-> "activity", tool |-> tool_name, description |-> desc,
         message_id |-> message_id]

\* the membership test left out
NeverEmitted(tc_id, emitted) == FALSE

\* `tc_id in emitted_tool_calls`
AlreadyEmitted(tc_id, emitted) == tc_id \in emitted

\* the inner loop over msg.tool_calls: st = [emitted, out, ids], ids being the
\* identifiers announced so far, in order
RECURSIVE AnnounceCalls(_, _, _)
AnnounceCalls(tcs, st, message_id) ==
    IF tcs = <<>> THEN st
    ELSE LET tc == Head(tcs)
             tc_id == TcId(tc)
         IN  IF AlreadyEmitted(tc_id, st.emitted)
             THEN AnnounceCalls(Tail(tcs), st, message_id)
             ELSE AnnounceCalls(Tail(tcs),
                                [emitted |-> st.emitted \cup {tc_id},
                                 out |-> send(st.out, ActivityEvent(tc, message_id)),
                                 ids |-> Append(st.ids, tc_id)],
                                message_id)

\* the first loop over event["messages"]
RECURSIVE AnnounceTurns(_, _, _)
AnnounceTurns(msgs, st, message_id) ==
    IF msgs = <<>> THEN st
    ELSE LET msg == Head(msgs)
         IN  IF msg.type = "ai" /\ msg.tool_calls # <<>>
             THEN AnnounceTurns(Tail(msgs),
                                AnnounceCalls(msg.tool_calls, st, message_id),
                                message_id)
             ELSE AnnounceTurns(Tail(msgs), st, message_id)

\* the loop over the blocks of a list content: the text of the first text
\* block, or the value final_response had
RECURSIVE BlockText(_, _)
BlockText(blocks, final) ==
    IF blocks = <<>> THEN final
    ELSE LET block == Head(blocks)
         IN  IF block.dict /\ Get(block.fields, "type", None) = "text"
             THEN Get(block.fields, "text", <<>>)
             ELSE BlockText(Tail(blocks), final)

\* the second loop, over reversed(event["messages"]), from index i down
RECURSIVE ScanFinal(_, _, _)
ScanFinal(msgs, i, final) ==
    IF i = 0 THEN final
    ELSE LET msg == msgs[i]
             c == msg.content
         IN  IF msg.type # "ai" THEN ScanFinal(msgs, i - 1, final)
             ELSE IF c.kind = "str" /\ Strip(c.text) # <<>> THEN c.text
             ELSE IF c.kind = "list"
             THEN LET f == BlockText(c.blocks, final)
                  IN  IF f # <<>> THEN f ELSE ScanFinal(msgs, i - 1, f)
             ELSE ScanFinal(msgs, i - 1, final)

\* `isinstance(event, dict) and "messages" in event`
IsSnapshot(event) == event.dict /\ "messages" \in DOMAIN event.fields

\* one iteration of `for event in agent.stream(...)`:
\* st = [emitted, out, ids, final]
ResearchStep(event, st, message_id) ==
    IF ~IsSnapshot(event)
    THEN st
    ELSE LET msgs == event.fields.messages
             a == AnnounceTurns(msgs, [emitted |-> st.emitted, out |-> st.out,
                                       ids |-> st.ids],
                                message_id)
         IN  [emitted |-> a.emitted, out |-> a.out, ids |-> a.ids,
              final |-> ScanFinal(msgs, Len(msgs), st.final)]

\* ------------------------------------------------- the agent (environment)
\* the turns the agent has added after the user's turn
AgentAdded(conv) == SubSeq(conv, 2, Len(conv))

\* the turns the agent may add next, n being the lines read plus the turns
\* produced so far
Allowed(n) == IF n < MaxSteps THEN AgentTurns ELSE {}

\* the runs of turns the agent may add between two snapshots
RECURSIVE Extensions(_)
Extensions(n) ==
    {<<>>} \cup UNION {{<<t>> \o e : e \in Extensions(n + 1)} : t \in Allowed(n)}

\* past MaxSteps the agent goes on only as a model that has asked for the same
\* search in every round of the process so far, and asks once more
LoopsOn(conv, n, turns) ==
    LET added == AgentAdded(conv)
    IN  IF /\ n >= MaxSteps
           /\ turns = Min(Len(added), MaxSteps - (n - turns))
           /\ Len(added) \in 1..(MaxLoopTurns - 1)
           /\ \A i \in 1..Len(added) : added[i] = LoopTurn
        THEN {<<LoopTurn>>}
        ELSE {}

\* what agent.stream(..., stream_mode="values") may yield next: the grown
\* conversation, or a value research() skips
AgentEvents(conv, n, turns) ==
    {[dict |-> FALSE, fields |-> EmptyDict], [dict |-> TRUE, fields |-> EmptyDict]}
    \cup {[dict |-> TRUE, fields |-> [messages |-> conv \o e]] :
           e \in Extensions(n) \cup LoopsOn(conv, n, turns)}

\* ------------------------------------------------------------- actions
Init ==
    /\ pc = "STARTING"
    /\ nread = 0
    /\ line = NoLine
    /\ asked = <<>>
    /\ stdout = <<>>
    /\ stderr = <<>>
    /\ sent_during = <<>>
    /\ fault = "none"
    /\ mid = None
    /\ messages = <<>>
    /\ final_response = <<>>
    /\ emitted_tool_calls = {}
    /\ announced = <<>>
    /\ produced = 0

\* every event written since `before` was written while `n` queries had been asked
Stamp(before, after, n) ==
    sent_during \o [i \in 1..(Len(after) - Len(before)) |-> n]

\* what research() and the agent hold
research_vars == <<mid, messages, final_response, emitted_tool_calls, announced>>

\* a main() that starts over after each query, announcing itself again
Restarting == "STARTING"

\* main(), before the loop
Start ==
    /\ pc = "STARTING"
    /\ stdout' = send(stdout, [type |-> "ready"])
    /\ stderr' = log(stderr, <<"Web Research Agent ready">>)
    /\ sent_during' = Stamp(stdout, stdout', 0)
    /\ pc' = "SERVING"
    /\ UNCHANGED <<nread, line, asked, fault, research_vars, produced>>

\* an uncaught exception ends main()
Crash(exc) ==
    /\ pc' = "CRASHED"
    /\ fault' = exc
    /\ stderr' = log(stderr, <<"Traceback", exc>>)
    /\ UNCHANGED <<asked, stdout, sent_during, research_vars, produced>>

\* `continue`: the line is dropped
Continue ==
    UNCHANGED <<pc, asked, stdout, stderr, sent_during, fault, research_vars,
                produced>>

\* `if not line: continue`
OnBlank == Continue

\* a loop without the except clause
RaiseDecodeError == Crash("JSONDecodeError")

\* `except json.JSONDecodeError: continue`
OnDecodeError == Continue

\* a shutdown branch that logs and forgets to break
ShutdownWithoutBreak ==
    /\ stderr' = log(stderr, <<"Shutting down">>)
    /\ UNCHANGED <<pc, asked, stdout, sent_during, fault, research_vars, produced>>

\* `if msg["type"] == "shutdown": log(...); break`
OnShutdown ==
    /\ stderr' = log(stderr, <<"Shutting down">>)
    /\ pc' = "STOPPED"
    /\ UNCHANGED <<asked, stdout, sent_during, fault, research_vars, produced>>

\* an emitted set that lives across the runs of research()
KeptEmittedSet == emitted_tool_calls

\* `emitted_tool_calls = set()`: the set of one run of research()
NewEmittedSet == {}

\* `if msg["type"] == "message"`: up to the call of research(), which builds
\* the agent and starts the stream on the user's turn
OnMessage(msg) ==
    IF SubscriptFault(msg, "message_id") # "none"
    THEN Crash(SubscriptFault(msg, "message_id"))
    ELSE IF SubscriptFault(msg, "content") # "none"
    THEN Crash(SubscriptFault(msg, "content"))
    ELSE /\ asked' = Append(asked, msg.fields.message_id)
         /\ mid' = msg.fields.message_id
         /\ messages' = <<HumanTurn(msg.fields.content)>>
         /\ final_response' = <<>>
         /\ emitted_tool_calls' = NewEmittedSet
         /\ announced' = <<>>
         /\ pc' = "RESEARCH"
         /\ UNCHANGED <<stdout, stderr, sent_during, fault, produced>>

\* a loop that answers a type it does not know with an error event
RejectOtherType ==
    /\ stdout' = send(stdout, [type |-> "error", error |-> <<"unknown type">>,
                               message_id |-> None])
    /\ sent_during' = Stamp(stdout, stdout', Len(asked))
    /\ UNCHANGED <<pc, asked, stderr, fault, research_vars, produced>>

\* a parsed line whose type is neither "shutdown" nor "message": the loop
\* goes on to the next line
OnOtherType == Continue

\* one iteration of `for line in sys.stdin`, up to the call of research()
ReadLine(l) ==
    /\ pc = "SERVING"
    /\ nread + produced < MaxSteps
    /\ nread' = nread + 1
    /\ line' = l
    /\ LET parsed == JsonLoads(l)
       IN  IF l.form = "blank" THEN OnBlank
           ELSE IF ~parsed.ok THEN OnDecodeError
           ELSE IF SubscriptFault(parsed, "type") # "none"
           THEN Crash(SubscriptFault(parsed, "type"))
           ELSE IF parsed.fields.type = "shutdown" THEN OnShutdown
           ELSE IF parsed.fields.type = "message" THEN OnMessage(parsed)
           ELSE OnOtherType

\* sys.stdin is exhausted: the for loop ends and main() returns
EndOfInput ==
    /\ pc = "SERVING"
    /\ pc' = "STOPPED"
    /\ UNCHANGED <<nread, line, asked, stdout, stderr, sent_during, fault,
                   research_vars, produced>>

\* research() is left: its locals and the agent are gone
Discard ==
    /\ mid' = None
    /\ messages' = <<>>
    /\ final_response' = <<>>
    /\ emitted_tool_calls' = NewEmittedSet
    /\ announced' = <<>>

\* the lines the searches behind the tool messages `turns` logged
RECURSIVE ToolLogs(_)
ToolLogs(turns) ==
    IF turns = <<>> THEN <<>>
    ELSE (IF Head(turns) \in ToolTurns
          THEN web_search(SearchQuery,
                          CHOOSE o \in Searched : ToolTurn(o) = Head(turns)).logged
          ELSE <<>>)
         \o ToolLogs(Tail(turns))

\* the agent yields one more event and research() handles it
StreamEvent(event) ==
    /\ pc = "RESEARCH"
    /\ LET st == ResearchStep(event,
                              [emitted |-> emitted_tool_calls, out |-> stdout,
                               ids |-> announced, final |-> final_response], mid)
       IN  /\ emitted_tool_calls' = st.emitted
           /\ stdout' = st.out
           /\ announced' = st.ids
           /\ final_response' = st.final
           /\ sent_during' = Stamp(stdout, st.out, Len(asked))
    /\ messages' = IF IsSnapshot(event) THEN event.fields.messages ELSE messages
    /\ produced' = IF IsSnapshot(event)
                   THEN Min(produced + (Len(event.fields.messages) - Len(messages)),
                            MaxSteps - nread)
                   ELSE produced
    /\ stderr' = IF IsSnapshot(event)
                  THEN stderr \o ToolLogs(SubSeq(event.fields.messages, Len(messages) + 1,
                                                 Len(event.fields.messages)))
                  ELSE stderr
    /\ UNCHANGED <<pc, nread, line, asked, fault, mid>>

\* the response is sent from inside the stream loop: research() goes on
StillResearching == "RESEARCH"

\* where main() goes after the try statement: back to the for loop
AfterQuery == "SERVING"

\* the stream ends, research() returns and main() sends the response
ResearchReturns ==
    /\ pc = "RESEARCH"
    /\ stdout' = send(stdout, [type |-> "response", content |-> final_response,
                               message_id |-> mid, done |-> TRUE])
    /\ sent_during' = Stamp(stdout, stdout', Len(asked))
    /\ pc' = AfterQuery
    /\ Discard
    /\ UNCHANGED <<nread, line, asked, stderr, fault, produced>>

\* an except branch that reports the error and sends no response
ErrorEventTwice(e, message_id) ==
    <<[type |-> "error", error |-> e, message_id |-> message_id],
      [type |-> "error", error |-> e, message_id |-> message_id]>>

\* an except branch whose response carries the bare error text
BareFailureEvents(e, message_id) ==
    <<[type |-> "error", error |-> e, message_id |-> message_id],
      [type |-> "response", content |-> e, message_id |-> message_id,
       done |-> TRUE]>>

\* the events of the except branch
FailureEvents(e, message_id) ==
    <<[type |-> "error", error |-> e, message_id |-> message_id],
      [type |-> "response", content |-> <<"Something went wrong: ">> \o e,
       message_id |-> message_id, done |-> TRUE]>>

\* research() raises e: the except branch of main()
ResearchRaises(e) ==
    /\ pc = "RESEARCH"
    /\ stderr' = log(stderr, <<"Error: ">> \o e)
    /\ stdout' = send(send(stdout, FailureEvents(e, mid)[1]), FailureEvents(e, mid)[2])
    /\ sent_during' = Stamp(stdout, stdout', Len(asked))
    /\ pc' = AfterQuery
    /\ Discard
    /\ UNCHANGED <<nread, line, asked, fault, produced>>

Next ==
    \/ Start
    \/ \E l \in InputLines : ReadLine(l)
    \/ EndOfInput
    \/ \E event \in AgentEvents(messages, nread + produced, produced) :
            StreamEvent(event)
    \/ ResearchReturns
    \/ \E e \in Faults \cup ToolFaults : ResearchRaises(e)

Spec == Init /\ [][Next]_vars

\* research() ends: agent.stream() is a finite generator, so the run returns
\* or raises
ResearchEnds ==
    ResearchReturns \/ \E e \in Faults \cup ToolFaults : ResearchRaises(e)

FairSpec == Spec /\ WF_vars(ResearchEnds)

\* ------------------------------------------------------------ properties
Events == 1..Len(stdout)

IsType(i, t) == stdout[i].type = t

\* the events written while query k was the latest one asked
EventsOf(k) == {i \in Events : sent_during[i] = k}

\* the terminal response events on the wire that carry message_id m
TerminalFor(m) ==
    {i \in Events : IsType(i, "response") /\ stdout[i].message_id = m
                    /\ stdout[i].done = TRUE}

\* the queries asked with message_id m
AskedWith(m) == {k \in 1..Len(asked) : asked[k] = m}

\* the queries research() has finished with
Finished == {k \in 1..Len(asked) : ~(pc = "RESEARCH" /\ k = Len(asked))}

\* C1: every well-formed message handed to research() gets exactly one
\* terminal response (type response, its message_id, done = true), whether
\* research() returned or raised: none while research() runs, one from then
\* on, and research() always ends.
C1_OneTerminalResponse ==
    /\ [](\A k \in 1..Len(asked) :
            LET r == {i \in EventsOf(k) : IsType(i, "response")}
            IN  /\ Cardinality(r) = IF k \in Finished THEN 1 ELSE 0
                /\ \A i \in r : stdout[i].message_id = asked[k] /\ stdout[i].done = TRUE)
    /\ [](\A m \in MessageIds :
            Cardinality(TerminalFor(m)) = Cardinality(AskedWith(m) \cap Finished))
    /\ (pc = "RESEARCH" ~> pc = "SERVING")

\* two queries with the same message_id, one answered and one failed
C1_Witness ==
    /\ pc = "SERVING" /\ Len(asked) = 2 /\ asked[1] = asked[2]
    /\ \E i, j \in TerminalFor(asked[1]) :
         /\ i < j
         /\ stdout[i].content = <<"a1">>
         /\ stdout[j].content = <<"Something went wrong: ", "boom">>

\* C2: when research() raises, main() writes an error event and then a
\* response event, both with the query's message_id, the response with
\* done = true and a failure string that embeds the error, and goes back to
\* reading input.
C2_RaiseIsReported ==
    /\ [](\A i \in Events : IsType(i, "error") =>
            /\ i < Len(stdout)
            /\ IsType(i + 1, "response")
            /\ stdout[i + 1].message_id = stdout[i].message_id
            /\ stdout[i].message_id = asked[sent_during[i]]
            /\ stdout[i + 1].done = TRUE
            /\ stdout[i + 1].content = <<"Something went wrong: ">> \o stdout[i].error)
    /\ [][(pc = "RESEARCH" /\ pc' # "RESEARCH" /\ Len(stderr') > Len(stderr)) =>
            /\ Len(stdout') = Len(stdout) + 2
            /\ stdout'[Len(stdout) + 1].type = "error"
            /\ pc' = "SERVING"]_vars

\* a query failed after an activity event was sent, and the next query was
\* answered
C2_Witness ==
    /\ pc = "SERVING" /\ Len(asked) = 2
    /\ \E i \in EventsOf(1) : IsType(i, "activity")
    /\ \E i \in EventsOf(1) : IsType(i, "error")
    /\ \E i \in EventsOf(2) : IsType(i, "response") /\ stdout[i].content = <<"a1">>

\* C3: every activity event of a query is written before the query's
\* terminal response and carries the query's message_id; once research() is
\* left the last event on the wire is no activity event.
C3_ActivityBeforeResponse ==
    /\ \A i, j \in Events :
         (IsType(i, "activity") /\ IsType(j, "response")
          /\ sent_during[i] = sent_during[j]) => i < j
    /\ \A i \in Events :
         IsType(i, "activity") =>
            /\ sent_during[i] \in 1..Len(asked)
            /\ stdout[i].message_id = asked[sent_during[i]]
    /\ (pc # "RESEARCH" /\ stdout # <<>>) => ~IsType(Len(stdout), "activity")

\* two activity events, then the response of the same query
C3_Witness ==
    \E i \in Events :
        /\ i + 2 <= Len(stdout)
        /\ IsType(i, "activity") /\ IsType(i + 1, "activity")
        /\ IsType(i + 2, "response")
        /\ sent_during[i] = sent_during[i + 2]

\* the identifiers of the tool calls of the assistant turns of a conversation
RECURSIVE CallIds(_)
CallIds(msgs) ==
    IF msgs = <<>> THEN {}
    ELSE (IF Head(msgs).type = "ai"
          THEN {TcId(Head(msgs).tool_calls[n]) : n \in 1..Len(Head(msgs).tool_calls)}
          ELSE {}) \cup CallIds(Tail(msgs))

\* C4: within one research() run no tool-call identifier is announced twice,
\* however often the snapshots show it: the run's activity events are one
\* per identifier seen.
C4_OneActivityPerCall ==
    pc = "RESEARCH" =>
        /\ \A a, b \in 1..Len(announced) : announced[a] = announced[b] => a = b
        /\ Len(announced) =
             Cardinality({i \in EventsOf(Len(asked)) : IsType(i, "activity")})
        /\ {announced[a] : a \in 1..Len(announced)} = CallIds(messages)

\* the same identifier in two turns of the conversation, announced once
C4_Witness ==
    /\ pc = "RESEARCH"
    /\ \E a, b \in 1..Len(messages) :
         /\ a < b
         /\ messages[a].type = "ai" /\ messages[b].type = "ai"
         /\ \E x \in 1..Len(messages[a].tool_calls), y \in 1..Len(messages[b].tool_calls) :
              TcId(messages[a].tool_calls[x]) = TcId(messages[b].tool_calls[y])
    /\ Len(announced) = 1

\* the model invocations of a conversation: its assistant turns
RECURSIVE ModelRounds(_)
ModelRounds(msgs) ==
    IF msgs = <<>> THEN 0
    ELSE (IF Head(msgs).type = "ai" THEN 1 ELSE 0) + ModelRounds(Tail(msgs))

\* C5: a research run performs at most 8 model-invocation rounds, however
\* often the model asks for tools.
C5_AtMostEightRounds == pc = "RESEARCH" => ModelRounds(messages) <= 8

\* a line that parses as a JSON object with type "message"
IsMessageObject(l) ==
    /\ l.form = "json" /\ l.kind = "object"
    /\ "type" \in DOMAIN l.fields
    /\ l.fields.type = "message"

\* C6: a message line that lacks message_id or content fails that message
\* alone: main() does not stop, later lines are still read and served.
C6_BadMessageFailsAlone ==
    (IsMessageObject(line) /\ ~({"message_id", "content"} \subseteq DOMAIN line.fields))
        => pc \in {"SERVING", "STOPPED"} /\ fault = "none"

\* a line that is valid JSON but no wire message: not an object, or an
\* object without a type
IsForeignJson(l) ==
    l.form = "json" /\ (l.kind # "object" \/ "type" \notin DOMAIN l.fields)

\* C7: a line that is valid JSON but no wire message is ignored; main()
\* leaves SERVING only through shutdown or the end of the input.
C7_ForeignJsonIgnored ==
    /\ IsForeignJson(line) => pc \in {"SERVING", "STOPPED"}
    /\ pc \in {"STARTING", "SERVING", "RESEARCH", "STOPPED"}

\* C8: a blank line or a line that is no JSON writes no event and leaves
\* main() in SERVING with everything but the input position as it was, so
\* the next line is handled as if the line had not been sent.
C8_MalformedLineDropped ==
    [][(pc = "SERVING" /\ nread' = nread + 1 /\ line'.form \in {"blank", "text"}) =>
         /\ pc' = "SERVING"
         /\ stdout' = stdout
         /\ UNCHANGED <<asked, stderr, sent_during, fault, research_vars>>]_vars

\* a line that is no JSON was read after a query was served
C8_Witness ==
    /\ line.form = "text" /\ pc = "SERVING" /\ nread = 2 /\ Len(asked) = 1
    /\ IsType(Len(stdout), "response")

\* C9: once a shutdown line is read main() is STOPPED; from then on no line
\* is read and no event is written.
C9_ShutdownStops ==
    /\ [](line = ShutdownLine => pc = "STOPPED")
    /\ [][pc = "STOPPED" => (pc' = "STOPPED" /\ nread' = nread /\ stdout' = stdout)]_vars
    /\ [](pc = "STOPPED" => ~ENABLED Next)

\* shutdown read after one served query, with input left to read
C9_Witness ==
    /\ pc = "STOPPED" /\ line = ShutdownLine
    /\ Len(asked) = 1 /\ nread + produced < MaxSteps
    /\ IsType(Len(stdout), "response")

\* C10: queries are served one at a time: when a line is read every query
\* asked so far has its response on the wire, the events of an earlier query
\* all precede those of a later one, each carries its query's message_id,
\* and stdout only grows at its end.
C10_OneQueryAtATime ==
    /\ [](\A i, j \in Events : i < j => sent_during[i] <= sent_during[j])
    /\ [](\A i \in Events :
            IF IsType(i, "ready") THEN sent_during[i] = 0
            ELSE /\ sent_during[i] \in 1..Len(asked)
                 /\ stdout[i].message_id = asked[sent_during[i]])
    /\ [][nread' = nread + 1 =>
            \A k \in 1..Len(asked) : \E i \in EventsOf(k) : IsType(i, "response")]_vars
    /\ [][Len(stdout) <= Len(stdout') /\ SubSeq(stdout', 1, Len(stdout)) = stdout]_vars

\* two queries with different message_ids, each with an activity event and
\* its response
C10_Witness ==
    /\ pc = "SERVING" /\ Len(asked) = 2 /\ asked[1] # asked[2]
    /\ \A k \in 1..2 :
         /\ \E i \in EventsOf(k) : IsType(i, "activity")
         /\ \E i \in EventsOf(k) : IsType(i, "response")

\* the events of a stdout written while query k was the latest one asked, in
\* the order they were written
RECURSIVE EventsOfRun(_, _, _)
EventsOfRun(out, stamps, k) ==
    IF out = <<>> THEN <<>>
    ELSE (IF Head(stamps) = k THEN <<Head(out)>> ELSE <<>>)
         \o EventsOfRun(Tail(out), Tail(stamps), k)

\* research() returns to main(), which sends the response
Returning == pc = "RESEARCH" /\ pc' = "SERVING" /\ stderr' = stderr

\* the model answered the query with text straight away, asking for no tool
DirectReply(conv) ==
    /\ Len(conv) = 2
    /\ conv[2].type = "ai" /\ conv[2].tool_calls = <<>>
    /\ conv[2].content.kind = "str" /\ Strip(conv[2].content.text) # <<>>

\* C11: a message the model answers with text straight away produces exactly
\* two events: one activity event of the thinking kind, then the response
\* with the message's id, done = true and the model's reply as content; no
\* activity event of a tool.
C11_DirectReplyEvents ==
    [][(Returning /\ DirectReply(messages)) =>
         LET ev == EventsOfRun(stdout', sent_during', Len(asked))
         IN  /\ Len(ev) = 2
             /\ ev[1].type = "activity" /\ ev[1].tool = "thinking"
             /\ ev[1].message_id = mid
             /\ ev[2] = [type |-> "response", content |-> messages[2].content.text,
                         message_id |-> mid, done |-> TRUE]]_vars

\* the model asked for two searches in its first turn and for no tool after
TwoSearches(conv) ==
    /\ Len(conv) >= 2
    /\ conv[2].type = "ai" /\ Len(conv[2].tool_calls) = 2
    /\ \A n \in 1..2 : Get(conv[2].tool_calls[n], "name", "") = ToolName
    /\ TcId(conv[2].tool_calls[1]) # TcId(conv[2].tool_calls[2])
    /\ \A j \in 3..Len(conv) : conv[j].tool_calls = <<>>

\* C12: a run in which the model asks for search A and then search B writes,
\* in this order: the thinking activity, the activity event of A, the
\* activity event of B, one activity event saying the results are being
\* analyzed, and the response.
C12_TwoSearchesEvents ==
    [][(Returning /\ TwoSearches(messages)) =>
         LET ev == EventsOfRun(stdout', sent_during', Len(asked))
         IN  /\ Len(ev) = 5
             /\ \A n \in 1..4 : ev[n].type = "activity"
             /\ ev[1].tool = "thinking"
             /\ ev[2] = ActivityEvent(messages[2].tool_calls[1], mid)
             /\ ev[3] = ActivityEvent(messages[2].tool_calls[2], mid)
             /\ ev[4].tool = "analyzing"
             /\ ev[5].type = "response"]_vars

\* the part of C12 the program does keep: the two tool activity events are
\* written in the order the model asked for the searches, before the response
C12_ToolOrderKept ==
    [][(Returning /\ TwoSearches(messages)) =>
         LET ev == EventsOfRun(stdout', sent_during', Len(asked))
         IN  /\ Len(ev) = 3
             /\ ev[1] = ActivityEvent(messages[2].tool_calls[1], mid)
             /\ ev[2] = ActivityEvent(messages[2].tool_calls[2], mid)
             /\ ev[3].type = "response"]_vars

\* str(e) of the failures the provider may meet
ProviderCauses == {o.cause : o \in {x \in ProviderOutcomes : x.kind # "ok"}}

\* a tool message that reports a failed search
IsSearchError(turn) ==
    /\ turn.type = "tool" /\ turn.content.kind = "str"
    /\ turn.content.text # <<>> /\ Head(turn.content.text) = "Search error: "

\* C13: web_search never raises: when the provider fails (transport fault,
\* HTTP error status, a body that is no JSON) it returns a string that
\* begins with "Search error: " and carries the cause; the failure reaches
\* the conversation as a tool message, research() goes on, and no error event
\* is written because of it.
C13_SearchNeverRaises ==
    /\ \A o \in ProviderOutcomes :
         LET r == web_search(SearchQuery, o)
         IN  /\ ~r.raised
             /\ o.kind # "ok" => r.value = <<"Search error: ">> \o o.cause
    /\ \A i \in Events : IsType(i, "error") => stdout[i].error \notin ProviderCauses
    /\ pc = "RESEARCH" =>
         \A j \in 1..Len(messages) :
            messages[j].type = "tool" =>
               \/ IsSearchError(messages[j])
               \/ Head(messages[j].content.text) \in
                    {"Title: ", "No results found. Try a different search query."}
    /\ (pc = "RESEARCH" /\ \E j \in 1..Len(messages) : IsSearchError(messages[j])) =>
         \A i \in EventsOf(Len(asked)) : IsType(i, "activity")

\* a search failed, the model answered after it and research() has the
\* answer as its final response
C13_Witness ==
    /\ pc = "RESEARCH"
    /\ \E j \in 1..Len(messages) :
         /\ IsSearchError(messages[j])
         /\ j < Len(messages)
         /\ messages[Len(messages)].type = "ai"
    /\ final_response = <<"a1">>
    /\ \E i \in EventsOf(Len(asked)) : IsType(i, "activity")

\* C14: every activity, error and response event is written while a query
\* is being processed and carries the message_id of that query, the latest
\* message handed to research(); no such event is written while main() waits
\* for input or after it stopped.
C14_EventsCarryCurrentId ==
    [][\A i \in (Len(stdout) + 1)..Len(stdout') :
          stdout'[i].type \in {"activity", "error", "response"} =>
             /\ pc = "RESEARCH"
             /\ mid = asked[Len(asked)]
             /\ stdout'[i].message_id = mid]_vars

\* the second query, asked with another message_id than the first, has an
\* activity, an error and a response event, all with its message_id
C14_Witness ==
    /\ pc = "SERVING" /\ Len(asked) = 2 /\ asked[1] # asked[2]
    /\ \A t \in {"activity", "error", "response"} :
         \E i \in EventsOf(2) : IsType(i, t) /\ stdout[i].message_id = asked[2]
    /\ \E i \in EventsOf(1) : stdout[i].message_id = asked[1]

\* whether an assistant turn has text: a str that is not blank, or a list
\* with a text block that is not empty
HasText(turn) ==
    /\ turn.type = "ai"
    /\ IF turn.content.kind = "str" THEN Strip(turn.content.text) # <<>>
       ELSE \E n \in 1..Len(turn.content.blocks) :
               LET b == turn.content.blocks[n]
               IN  /\ b.dict /\ Get(b.fields, "type", None) = "text"
                   /\ Get(b.fields, "text", <<>>) # <<>>

\* the texts an assistant turn holds: its str, or the text of each of its
\* text blocks
TextsOf(turn) ==
    IF turn.content.kind = "str" THEN {turn.content.text}
    ELSE {Get(turn.content.blocks[n].fields, "text", <<>>) :
            n \in {x \in 1..Len(turn.content.blocks) :
                     /\ turn.content.blocks[x].dict
                     /\ Get(turn.content.blocks[x].fields, "type", None) = "text"}}

\* the assistant turns of a conversation that have text
WithText(conv) == {j \in 1..Len(conv) : HasText(conv[j])}

\* the most recent of them
Latest(S) == CHOOSE j \in S : \A k \in S : k <= j

\* C15: the value research() holds as its final response is text of the
\* most recent assistant turn that has text; it is never the text of an
\* older turn while a more recent turn has text, whatever the newest turn
\* holds and however many turns a snapshot added.
C15_LatestTextReturned ==
    (pc = "RESEARCH" /\ WithText(messages) # {}) =>
        final_response \in TextsOf(messages[Latest(WithText(messages))])

\* the texts of the text blocks of a list content, in order
RECURSIVE BlockTexts(_)
BlockTexts(blocks) ==
    IF blocks = <<>> THEN <<>>
    ELSE (IF Head(blocks).dict /\ Get(Head(blocks).fields, "type", None) = "text"
          THEN <<Get(Head(blocks).fields, "text", <<>>)>>
          ELSE <<>>)
         \o BlockTexts(Tail(blocks))

\* texts joined by newlines
RECURSIVE JoinLines(_)
JoinLines(texts) ==
    IF texts = <<>> THEN <<>>
    ELSE IF Len(texts) = 1 THEN Head(texts)
    ELSE Head(texts) \o <<"\n">> \o JoinLines(Tail(texts))

\* C16: when the newest assistant turn has block content with text, the
\* final response is the text of all its text blocks, in order, joined by
\* newlines: no text block after the first is dropped.
C16_AllTextBlocksJoined ==
    (/\ pc = "RESEARCH" /\ Len(messages) >= 2
     /\ HasText(messages[Len(messages)])
     /\ messages[Len(messages)].content.kind = "list") =>
        final_response = JoinLines(BlockTexts(messages[Len(messages)].content.blocks))

\* the activity events of query k that announce the search for q
SearchActivities(k, q) ==
    {i \in EventsOf(k) :
        /\ IsType(i, "activity")
        /\ stdout[i].description = <<ToolName, "(", q, ")">>}

\* C17: the emitted set belongs to one research() run: it is empty when a
\* message starts, holds the identifiers of this run's conversation only, and
\* the run has one activity event per identifier in it; an identifier that an
\* earlier query announced is announced again, once, by a later query that
\* shows it.
C17_EmittedSetPerRun ==
    /\ [][(pc = "SERVING" /\ pc' = "RESEARCH") => emitted_tool_calls' = {}]_vars
    /\ [](pc = "RESEARCH" =>
            /\ emitted_tool_calls = CallIds(messages)
            /\ Cardinality({i \in EventsOf(Len(asked)) : IsType(i, "activity")})
                 = Cardinality(emitted_tool_calls))

\* the second query shows the identifier t1 that the first query announced,
\* and announces it once more
C17_Witness ==
    /\ pc = "RESEARCH" /\ Len(asked) = 2
    /\ "t1" \in emitted_tool_calls
    /\ Cardinality(SearchActivities(1, "qa")) = 1
    /\ Cardinality(SearchActivities(2, "qa")) = 1

\* the tool calls of a conversation that carry no id, in order
RECURSIVE IdlessCalls(_)
IdlessCalls(msgs) ==
    IF msgs = <<>> THEN <<>>
    ELSE (IF Head(msgs).type = "ai"
          THEN SelectSeq(Head(msgs).tool_calls, LAMBDA tc : ~Truthy(Get(tc, "id", None)))
          ELSE <<>>)
         \o IdlessCalls(Tail(msgs))

\* C18: tool calls without an id are told apart by the tool's name only:
\* the first id-less call of a tool is announced, and a later id-less call of
\* the same tool, though it asks another query, gets no activity event.
C18_IdlessCallsCollapse ==
    pc = "RESEARCH" =>
        LET calls == IdlessCalls(messages)
            acts == {i \in EventsOf(Len(asked)) : IsType(i, "activity")}
        IN  /\ Cardinality({a \in 1..Len(announced) : announced[a] = ToolName}) <= 1
            /\ calls # <<>> =>
                 /\ \E i \in acts : stdout[i] = ActivityEvent(calls[1], mid)
                 /\ \A n \in 2..Len(calls) :
                      Get(calls[n], "name", "") = Get(calls[1], "name", "") =>
                         \/ calls[n].args = calls[1].args
                         \/ \A i \in acts : stdout[i] # ActivityEvent(calls[n], mid)

\* a turn with two id-less searches for different queries was seen and one
\* activity event, that of the first, was written
C18_Witness ==
    /\ pc = "RESEARCH"
    /\ Len(IdlessCalls(messages)) = 2
    /\ IdlessCalls(messages)[1].args # IdlessCalls(messages)[2].args
    /\ Cardinality(SearchActivities(Len(asked), "qa")) = 1
    /\ SearchActivities(Len(asked), "qc") = {}

\* a line that parses as a JSON object whose type is no type main() serves
IsOtherType(l) ==
    /\ l.form = "json" /\ l.kind = "object"
    /\ "type" \in DOMAIN l.fields
    /\ l.fields.type \notin {"shutdown", "message"}

\* C19: a JSON object whose type is neither shutdown nor message is ignored:
\* reading it writes no event and no log line, main() stays in SERVING with
\* no fault, and nothing but the input position changes, so the next line is
\* handled as usual.
C19_OtherTypeIgnored ==
    /\ [][(nread' = nread + 1 /\ IsOtherType(line')) =>
            /\ pc = "SERVING" /\ pc' = "SERVING" /\ fault' = "none"
            /\ UNCHANGED <<stdout, stderr, sent_during, asked, research_vars>>]_vars
    /\ [](IsOtherType(line) /\ pc = "SERVING" /\ nread + produced < MaxSteps
            => \A l \in InputLines : ENABLED ReadLine(l))

\* an object of type "ready" was read after a query was answered, and main()
\* is ready to read the next line
C19_Witness ==
    /\ IsOtherType(line) /\ line.fields.type = "ready"
    /\ pc = "SERVING" /\ nread = 2 /\ Len(asked) = 1
    /\ IsType(Len(stdout), "response")
    /\ nread + produced < MaxSteps
    /\ ENABLED ReadLine(MessageLine("m2", "q1"))

\* the ready events on the wire
ReadyEvents == {i \in Events : IsType(i, "ready")}

\* C20: the ready event is written exactly once, when main() starts, as the
\* first event of the process; nothing is on the wire before it and no
\* second ready event follows, whatever is read or served afterwards.
C20_ReadyOnceAndFirst ==
    /\ [](IF pc = "STARTING" THEN stdout = <<>> ELSE ReadyEvents = {1})
    /\ [][pc # "STARTING" =>
            \A i \in (Len(stdout) + 1)..Len(stdout') : stdout'[i].type # "ready"]_vars
    /\ [][pc # "STARTING" => pc' # "STARTING"]_vars

\* ready, then a served query with its events, then more input
C20_Witness ==
    /\ pc = "SERVING" /\ nread >= 2 /\ Len(asked) = 1
    /\ Len(stdout) >= 4
    /\ IsType(1, "ready")
    /\ \E i \in Events : IsType(i, "error")

====
